---- MODULE Spec2Model ----
(***************************************************************************)
(* Model of the notification log of interact.js: the rows of the table     *)
(* #msg_tbl, the handlers msg_add and msg_clear that change it, and the     *)
(* AJAX callbacks of db_maintenance that call msg_add when a response       *)
(* arrives.  Handlers and callbacks run to completion on the single         *)
(* JavaScript event loop, so each one is one action.                        *)
(*                                                                         *)
(* JavaScript values are written as strings, a number as its decimal        *)
(* rendering, which is what the row template `${...}` makes of them.        *)
(* Message texts are plain text (no markup).                                *)
(***************************************************************************)
EXTENDS Integers, Sequences, FiniteSets, TLC

\* ------------------------------------------------------------------ bounds
MaxTime  == 1      \* the clock read by `new Date()` runs over 0..MaxTime
MaxCalls == 6      \* msg_add calls recorded between two msg_clear calls
MaxReq   == 2      \* db_maintenance requests issued in one page life
MaxPre   == 7      \* rows a pre-populated #msg_tbl may hold at page load
MaxBeacon == 3     \* invocations of beaconLoop in one page life
MaxRate  == 3      \* rating requests for the item in one page life
MaxBl    == 4      \* calls of the blacklist edit handlers in one page life
MaxCheck == 3      \* blacklist check requests sent in one page life
MaxSeconds == 7300 \* largest argument given to fmtDuration

\* ------------------------------------------------------- program constants
max_msg_cnt == 5

\* an argument the caller left out
Undefined == "<undefined>"

\* the arguments handlers pass to msg_add
MsgArgs   == {"a", "b"}
LevelArgs == {Undefined, "ERROR"}

\* bl_pat_check, line 689
BlankPatMsg == "Blacklist pattern to test is only whitespace"

\* res.Message of a db_maint response whose Status is false
ServerMsgs == {"db locked"}

MaintOkMsg   == "Database Maintenance performed without errors"
MaintFailMsg == "Error performing DB maintenance"

VARIABLES
    msg_tbl,   \* the <tr> rows of #msg_tbl, in document order
    now,       \* the wall clock `new Date()` reads
    nreq,      \* number of db_maintenance requests issued so far
    pending,   \* ids of the requests whose response has not arrived
    done,      \* ids of the requests whose callback has run, in run order
    calls,     \* the msg_add calls since page load / the last msg_clear
    steps,     \* row count of #msg_tbl at entry and after each DOM change of the last call
    last,      \* which of the log's handlers ran last ("load": none yet)
    \* AJAX handlers and what their callbacks did
    inflight,  \* the handlers whose request is outstanding
    fin,       \* the handler or callback that ran last and what it did
    \* the beacon
    beacon_active,   \* settings.beacon.active
    beacon_div,      \* #beacon: its innerHTML and whether it has class 'error'
    beacon_timers,   \* pending window.setTimeout(beaconLoop, ...) timers
    beacon_reqs,     \* outstanding /ajax/beacon requests
    beacon_runs,     \* what each invocation of beaconLoop so far did
    beacon_off,      \* beaconToggle switched the beacon off and not on again since
    \* rating of one item
    item_row,        \* does #item_row_<id> have class 'boring'
    item_rating,     \* what #item_rating_<id> shows
    rate_reqs,       \* outstanding item_rate / item_unrate requests
    rate_n,          \* rating requests issued so far
    \* editing of blacklist patterns
    bl_pat_restore,  \* the object bl_pat_restore: pattern id -> saved pattern (Undefined: no entry)
    bl_pat_cell,     \* #bl_pat_<id>: edit form or text
    bl_updates,      \* outstanding /ajax/blacklist/update requests
    bl_n,            \* blacklist edit operations so far
    bl_last,         \* the blacklist edit handler that ran last
    \* checking of a blacklist pattern
    bl_pat_valid_res,   \* the flag bl_pat_valid_res
    bl_pat_check_res,   \* innerHTML of #bl_pat_check_res
    bl_checks,          \* outstanding /ajax/blacklist/check requests
    bl_check_n,         \* check requests issued so far
    \* fmtDuration
    fmt_seconds,     \* the argument of the last fmtDuration call
    fmt_result       \* what it returned

logVars    == <<msg_tbl, now, nreq, pending, done, calls, steps, last>>
ajaxVars   == <<inflight, fin>>
beaconVars == <<beacon_active, beacon_div, beacon_timers, beacon_reqs, beacon_runs, beacon_off>>
rateVars   == <<item_row, item_rating, rate_reqs, rate_n>>
blVars     == <<bl_pat_restore, bl_pat_cell, bl_updates, bl_n, bl_last>>
checkVars  == <<bl_pat_valid_res, bl_pat_check_res, bl_checks, bl_check_n>>
fmtVars    == <<fmt_seconds, fmt_result>>

\* everything but the log
uiVars == <<ajaxVars, beaconVars, rateVars, blVars, checkVars, fmtVars>>

vars == <<logVars, uiVars>>

\* ------------------------------------------------------------- msg_add
\* mutant: level and message written into each other's cell
Row_swapped(stamp, level, msg) == <<stamp, msg, level, "">>

\* `<tr><td>${new Date()}</td><td>${level}</td><td>${msg}</td><td></td></tr>`
Row(stamp, level, msg) == <<stamp, level, msg, "">>

\* msg_add(msg, level=1): the default applies when the argument is undefined
LevelOrDefault(level) == IF level = Undefined THEN "1" ELSE level

\* mutant: the loop runs while (cnt > max_msg_cnt)
EvictCond_gt(cnt) == cnt > max_msg_cnt

\* mutant: the loop starts one row early, while (cnt >= max_msg_cnt - 1)
EvictCond_early(cnt) == cnt >= max_msg_cnt - 1

\* while (cnt >= max_msg_cnt)
EvictCond(cnt) == cnt >= max_msg_cnt

\* mutant: rows[i + 1].remove()
RemoveRow_next(dom, i) == SelectSeq(dom, LAMBDA k : k # i + 1)

\* mutant: the newest attached row is removed instead of rows[i]
RemoveRow_newest(dom, i) == SelectSeq(dom, LAMBDA k : k # dom[Len(dom)])

\* rows[i].remove(): detach the element rows[i] from the table.  `dom` holds
\* the snapshot indices (0-based, as in rows) of the rows still attached.
RemoveRow(dom, i) == SelectSeq(dom, LAMBDA k : k # i)

\* The loop of msg_add over the snapshot `rows`: the list of the table's
\* states, one per DOM change, starting with the state at entry.
RECURSIVE EvictLoop(_, _, _)
EvictLoop(trace, i, cnt) ==
    IF EvictCond(cnt)
    THEN EvictLoop(Append(trace, RemoveRow(trace[Len(trace)], i)), i + 1, cnt - 1)
    ELSE trace

\* mutant: msg_tbl.innerHTML = row + msg_tbl.innerHTML
InnerHTMLAppend_prepend(tbl, row) == <<row>> \o tbl

\* mutant: the table is rendered anew, every row with the current date
InnerHTMLAppend_restamp(tbl, row) ==
    Append([k \in 1..Len(tbl) |-> <<row[1], tbl[k][2], tbl[k][3], tbl[k][4]>>], row)

\* msg_tbl.innerHTML += row
InnerHTMLAppend(tbl, row) == Append(tbl, row)

\* mutant: the row is inserted first and the table trimmed afterwards
MsgAddTrace_appendFirst(tbl, row) ==
    LET RECURSIVE Trim(_)
        Trim(trace) ==
            LET cur == trace[Len(trace)]
            IN  IF Len(cur) > max_msg_cnt
                THEN Trim(Append(trace, Tail(cur)))
                ELSE trace
    IN  Trim(<<tbl, Append(tbl, row)>>)

\* mutant: a full table gives up its oldest row that is not an ERROR row
MsgAddTrace_bySeverity(tbl, row) ==
    LET RECURSIVE Trim(_)
        Trim(trace) ==
            LET cur  == trace[Len(trace)]
                low  == {k \in 1..Len(cur) : cur[k][2] # "ERROR"}
                drop == IF low = {} THEN 1
                        ELSE CHOOSE k \in low : \A j \in low : k <= j
            IN  IF Len(cur) >= max_msg_cnt
                THEN Trim(Append(trace,
                         [k \in 1..(Len(cur) - 1) |->
                             IF k < drop THEN cur[k] ELSE cur[k + 1]]))
                ELSE trace
        evict == Trim(<<tbl>>)
    IN  Append(evict, Append(evict[Len(evict)], row))

\* The whole of msg_add on the table `tbl`: the table after every DOM change.
MsgAddTrace(tbl, row) ==
    LET rows   == tbl                          \* $('#msg_tbl tr')
        dom0   == [k \in 1..Len(rows) |-> k - 1]
        evict  == EvictLoop(<<dom0>>, 0, Len(rows))
        asRows == [s \in 1..Len(evict) |->
                      [k \in 1..Len(evict[s]) |-> rows[evict[s][k] + 1]]]
    IN  Append(asRows, InnerHTMLAppend(asRows[Len(asRows)], row))

\* msg_add called at time `now` by the callback of request `by` (0: by a handler)
msg_add(msg, level, by) ==
    LET row   == Row(now, LevelOrDefault(level), msg)
        trace == MsgAddTrace(msg_tbl, row)
    IN  /\ Len(calls) < MaxCalls
        /\ msg_tbl' = trace[Len(trace)]
        /\ steps' = [s \in 1..Len(trace) |-> Len(trace[s])]
        /\ calls' = Append(calls, [msg |-> msg, level |-> level, at |-> now, by |-> by])
        /\ last' = "msg_add"

\* some handler calls msg_add(msg, level), or msg_add(msg) without a level
call_msg_add ==
    /\ \E msg \in MsgArgs, level \in LevelArgs : msg_add(msg, level, 0)
    /\ UNCHANGED <<now, nreq, pending, done>>
    /\ UNCHANGED uiVars

\* bl_pat_check on an input of only whitespace: logs and returns, no request
bl_pat_check_blank ==
    /\ msg_add(BlankPatMsg, "INFO", 0)
    /\ UNCHANGED <<now, nreq, pending, done>>
    /\ UNCHANGED uiVars

\* mutant: only the oldest row is removed
msg_clear_first ==
    /\ msg_tbl' = IF msg_tbl = <<>> THEN <<>> ELSE Tail(msg_tbl)
    /\ steps' = <<Len(msg_tbl), Len(msg_tbl')>>
    /\ calls' = <<>>
    /\ last' = "msg_clear"
    /\ UNCHANGED <<now, nreq, pending, done>>
    /\ UNCHANGED uiVars

\* ------------------------------------------------------------ msg_clear
msg_clear ==
    /\ msg_tbl' = <<>>
    /\ steps' = <<Len(msg_tbl), 0>>
    /\ calls' = <<>>
    /\ last' = "msg_clear"
    /\ UNCHANGED <<now, nreq, pending, done>>
    /\ UNCHANGED uiVars

\* -------------------------------------------------------- db_maintenance
\* $.get(maintURL, ...): the request goes out, the handler returns
db_maintenance ==
    /\ nreq < MaxReq
    /\ nreq' = nreq + 1
    /\ pending' = pending \cup {nreq + 1}
    /\ UNCHANGED <<msg_tbl, now, done, calls, steps, last>>
    /\ UNCHANGED uiVars

\* function (res) { ... }: the response of request id arrived
db_maintenance_success(id) ==
    /\ id \in pending
    /\ \E Status \in BOOLEAN, Message \in ServerMsgs :
          IF ~Status
          THEN msg_add("ERROR", Message, id)
          ELSE msg_add("INFO", MaintOkMsg, id)
    /\ pending' = pending \ {id}
    /\ done' = Append(done, id)
    /\ UNCHANGED <<now, nreq>>
    /\ UNCHANGED uiVars

\* .fail(function () { ... }): request id failed at the transport level
db_maintenance_fail(id) ==
    /\ id \in pending
    /\ msg_add("ERROR", MaintFailMsg, id)
    /\ pending' = pending \ {id}
    /\ done' = Append(done, id)
    /\ UNCHANGED <<now, nreq>>
    /\ UNCHANGED uiVars

\* ---------------------------------------------------------------- clock
\* time passes between two events
Tick ==
    /\ now < MaxTime
    /\ now' = now + 1
    /\ UNCHANGED <<msg_tbl, nreq, pending, done, calls, steps, last>>
    /\ UNCHANGED uiVars

\* ------------------------------------------------------- specifications
\* no handler has run yet
NoFin == [h |-> "none", kind |-> "none", logged |-> FALSE, alerted |-> FALSE,
          sent |-> FALSE]

\* the page outside the log right after load
InitAjax == inflight = {} /\ fin = NoFin

InitBeacon ==
    /\ beacon_active = TRUE
    /\ beacon_div = [html |-> "", error |-> FALSE]
    /\ beacon_timers = 0
    /\ beacon_reqs = 0
    /\ beacon_runs = <<>>
    /\ beacon_off = FALSE

InitRate ==
    /\ item_row = FALSE
    /\ item_rating = "buttons"
    /\ rate_reqs = {}
    /\ rate_n = 0

\* the blacklist patterns of the page, and the pattern texts in use, each a
\* sequence of characters; the last one holds HTML markup
PatIds == {1, 2}
Pats   == {<<"p">>, <<"q">>, <<"<", "n", ">", "x">>}
NoPat  == <<>>

\* the blacklist edit handler that ran last: `pat` is its pattern argument;
\* for bl_pat_edit_cancel, `undo` says that it directly follows the
\* bl_pat_edit of the same id, and `pat` is then the argument of that call
BlOp(op, id, pat, undo) == [op |-> op, id |-> id, pat |-> pat, undo |-> undo]

\* var bl_pat_restore = {}; the cells as the page template renders them
InitBl ==
    /\ bl_pat_restore = [id \in {} |-> NoPat]
    /\ bl_pat_cell = [id \in PatIds |-> [mode |-> "text", html |-> <<"p">>]]
    /\ bl_updates = {}
    /\ bl_n = 0
    /\ bl_last = BlOp("load", 0, NoPat, FALSE)

InitCheck ==
    /\ bl_pat_valid_res = FALSE
    /\ bl_pat_check_res = ""                \* the result element is empty
    /\ bl_checks = 0
    /\ bl_check_n = 0

InitFmt == fmt_seconds = 0 /\ fmt_result = ""

InitUI == InitAjax /\ InitBeacon /\ InitRate /\ InitBl /\ InitCheck /\ InitFmt

\* page load with an empty #msg_tbl
Init ==
    /\ msg_tbl = <<>>
    /\ now = 0
    /\ nreq = 0
    /\ pending = {}
    /\ done = <<>>
    /\ calls = <<>>
    /\ steps = <<0>>
    /\ last = "load"
    /\ InitUI

\* the log on its own: handlers call msg_add and msg_clear in any order
Next ==
    \/ call_msg_add
    \/ msg_clear
    \/ Tick

Spec == Init /\ [][Next]_vars

\* page load with a #msg_tbl the page markup already filled with n rows
PreRows(n) == [k \in 1..n |-> Row(0, "1", "a")]

InitPre ==
    /\ \E n \in 0..MaxPre : msg_tbl = PreRows(n)
    /\ now = 0
    /\ nreq = 0
    /\ pending = {}
    /\ done = <<>>
    /\ calls = <<>>
    /\ steps = <<Len(msg_tbl)>>
    /\ last = "load"
    /\ InitUI

SpecPre == InitPre /\ [][Next]_vars

\* the log fed by db_maintenance callbacks next to a synchronous caller
NextAjax ==
    \/ bl_pat_check_blank
    \/ msg_clear
    \/ db_maintenance
    \/ \E id \in 1..MaxReq : db_maintenance_success(id)
    \/ \E id \in 1..MaxReq : db_maintenance_fail(id)
    \/ Tick

SpecAjax == Init /\ [][NextAjax]_vars

\* ---------------------------------------------------------- AJAX handlers
\* The handlers of the file that send a request.  What a callback does is
\* written as the list of its statements that tell the user something or
\* end it: msg_add(msg, level), alert(...), a patch of some page element
\* other than #msg_tbl, and an exception that ends the callback.
Handlers ==
    {"beaconLoop", "db_maintenance", "rate_item", "unrate_item", "subscribe",
     "add_tag", "remove_tag_link", "attach_tag_to_item", "display_items_for_tag",
     "create_tag", "mark_later_read", "mark_later_done", "feed_toggle_active",
     "feed_interval_submit", "bl_pat_check", "bl_pat_save", "bl_pat_update",
     "bl_item_delete"}

\* how a request ends: response with a true status flag, response with a
\* false status flag, failure of the transport
Kinds     == {"ok", "status_false", "net_fail"}
FailKinds == {"status_false", "net_fail"}

Log(msg, level) == [op |-> "msg_add", msg |-> msg, level |-> level]
Alert == [op |-> "alert", msg |-> "", level |-> ""]
Patch == [op |-> "patch", msg |-> "", level |-> ""]
Throw == [op |-> "throw", msg |-> "", level |-> ""]

\* res.message / res.Message of a response, and the texts the handlers build
SrvMsg == "message of the server"
ErrMsg == "error text of the handler"

\* the success callback on a response whose status flag is true
OnOk(h) ==
    CASE h = "db_maintenance"     -> <<Log("INFO", MaintOkMsg)>>
      [] h = "feed_toggle_active" -> <<>>
      [] OTHER                    -> <<Patch>>

\* the success callback on a response whose status flag is false
OnStatusFalse(h) ==
    CASE h = "beaconLoop"     -> <<Patch>>
      [] h = "db_maintenance" -> <<Log("ERROR", SrvMsg)>>
      [] h = "rate_item"      -> <<Log(SrvMsg, Undefined)>>
      [] h = "unrate_item"    -> <<Log(SrvMsg, "2")>>
      [] h \in {"subscribe", "add_tag", "remove_tag_link", "attach_tag_to_item",
                "display_items_for_tag", "create_tag"} -> <<Alert>>
      [] h \in {"mark_later_read", "mark_later_done", "feed_toggle_active",
                "feed_interval_submit"} -> <<Log("ERROR", SrvMsg), Alert>>
      [] h = "bl_pat_check"   -> <<Patch>>
      [] h = "bl_pat_save"    -> <<Log(SrvMsg, "ERROR"), Alert>>
      [] h = "bl_pat_update"  -> <<Log(SrvMsg, "ERROR"), Throw>>
      [] h = "bl_item_delete" -> <<>>

\* the .fail callback; a handler without one does nothing
OnNetFail(h) ==
    CASE h = "beaconLoop"     -> <<Patch>>
      [] h = "db_maintenance" -> <<Log("ERROR", MaintFailMsg)>>
      [] h \in {"rate_item", "unrate_item", "subscribe"} -> <<>>
      [] h \in {"add_tag", "remove_tag_link", "attach_tag_to_item",
                "display_items_for_tag", "create_tag", "mark_later_read",
                "mark_later_done", "feed_toggle_active",
                "feed_interval_submit"} -> <<Log("ERROR", ErrMsg), Alert>>
      [] h = "bl_pat_check"   -> <<Log(ErrMsg, "ERROR"), Alert>>
      [] h \in {"bl_pat_save", "bl_pat_update", "bl_item_delete"} -> <<Throw>>

Callback(h, kind) ==
    CASE kind = "ok"           -> OnOk(h)
      [] kind = "status_false" -> OnStatusFalse(h)
      [] kind = "net_fail"     -> OnNetFail(h)

\* the statements that run: those before the first exception
Ran(stmts) ==
    LET t == {k \in 1..Len(stmts) : stmts[k].op = "throw"}
    IN  IF t = {} THEN stmts
        ELSE SubSeq(stmts, 1, (CHOOSE k \in t : \A j \in t : k <= j) - 1)

Has(stmts, op) == \E k \in 1..Len(stmts) : stmts[k].op = op

\* mutant: the patched element contains #msg_tbl and its rows are replaced
PatchOther_wipe(tbl) == <<>>

\* what the patch of another element ($('#content-area'), $('#item_tags_..'),
\* ...) does to the rows of #msg_tbl: nothing
PatchOther(tbl) == tbl

\* run the statements of a handler or callback
Run(stmts) ==
    LET ran  == Ran(stmts)
        logs == SelectSeq(ran, LAMBDA st : st.op = "msg_add")
    IN  IF logs # <<>>
        THEN msg_add(logs[1].msg, logs[1].level, 0)
        ELSE /\ msg_tbl' = IF Has(ran, "patch") THEN PatchOther(msg_tbl) ELSE msg_tbl
             /\ UNCHANGED <<calls, steps, last>>

Fin(h, kind, stmts, sent) ==
    [h |-> h, kind |-> kind, logged |-> Has(Ran(stmts), "msg_add"),
     alerted |-> Has(Ran(stmts), "alert"), sent |-> sent]

notAjax == <<beaconVars, rateVars, blVars, checkVars, fmtVars>>

\* a handler sends its request and returns (create_tag and bl_pat_check:
\* called with an input that is not blank)
ajax_request(h) ==
    /\ h \in Handlers
    /\ h \notin inflight
    /\ nreq < MaxReq
    /\ nreq' = nreq + 1
    /\ inflight' = inflight \cup {h}
    /\ fin' = Fin(h, "request", <<>>, TRUE)
    /\ UNCHANGED <<msg_tbl, now, pending, done, calls, steps, last>>
    /\ UNCHANGED notAjax

\* the request of handler h ends and its callback runs
ajax_callback(h, kind) ==
    /\ h \in inflight
    /\ Run(Callback(h, kind))
    /\ inflight' = inflight \ {h}
    /\ fin' = Fin(h, kind, Callback(h, kind), FALSE)
    /\ UNCHANGED <<now, nreq, pending, done>>
    /\ UNCHANGED notAjax

\* text typed into an input field, as its list of characters
Inputs == {<<>>, <<" ">>, <<" ", "\t">>, <<"x">>, <<" ", "x">>}

\* /^\s*$/ .test(txt)
whitespace_pat(txt) == \A k \in 1..Len(txt) : txt[k] \in {" ", "\t", "\n"}

\* create_tag with `name` in #tag_form_name
create_tag(name) ==
    LET stmts == IF whitespace_pat(name) THEN <<Alert>> ELSE <<>>
    IN  /\ "create_tag" \notin inflight
        /\ nreq < MaxReq
        /\ Run(stmts)
        /\ nreq' = nreq + 1                       \* $.post(url, data, ...)
        /\ inflight' = inflight \cup {"create_tag"}
        /\ fin' = Fin("create_tag",
                      IF whitespace_pat(name) THEN "invalid" ELSE "request",
                      stmts, TRUE)
        /\ UNCHANGED <<now, pending, done>>
        /\ UNCHANGED notAjax

\* bl_pat_check with `txt` in #bl_pat_input
bl_pat_check(txt) ==
    /\ "bl_pat_check" \notin inflight
    /\ IF whitespace_pat(txt)
       THEN /\ Run(<<Log(BlankPatMsg, "INFO")>>)
            /\ fin' = Fin("bl_pat_check", "invalid", <<Log(BlankPatMsg, "INFO")>>, FALSE)
            /\ UNCHANGED <<nreq, inflight>>      \* return
       ELSE /\ nreq < MaxReq
            /\ nreq' = nreq + 1                  \* $.post(url, ...)
            /\ inflight' = inflight \cup {"bl_pat_check"}
            /\ fin' = Fin("bl_pat_check", "request", <<>>, TRUE)
            /\ UNCHANGED <<msg_tbl, calls, steps, last>>
    /\ UNCHANGED <<now, pending, done>>
    /\ UNCHANGED notAjax

\* all request handlers of the page next to msg_clear
NextFail ==
    \/ \E h \in Handlers : ajax_request(h)
    \/ \E h \in Handlers, kind \in Kinds : ajax_callback(h, kind)
    \/ msg_clear

SpecFail == Init /\ [][NextFail]_vars

\* the two handlers that validate their input, with their callbacks
NextValidate ==
    \/ \E name \in Inputs : create_tag(name)
    \/ \E txt \in Inputs : bl_pat_check(txt)
    \/ \E h \in {"create_tag", "bl_pat_check"}, kind \in Kinds : ajax_callback(h, kind)
    \/ msg_clear

SpecValidate == Init /\ [][NextValidate]_vars

\* ----------------------------------------------------------------- beacon
notBeacon == <<logVars, ajaxVars, rateVars, blVars, checkVars, fmtVars>>

\* what the try block of beaconLoop does: nothing when the beacon is
\* inactive; otherwise $.get sends the request or throws
TryOutcomes == IF beacon_active THEN {"sent", "threw"} ELSE {"idle"}

\* mutant: setTimeout stands at the end of the try block, not in finally
Scheduled_inTry(outcome) == IF outcome \in {"idle", "sent"} THEN 1 ELSE 0

\* finally { window.setTimeout(beaconLoop, settings.beacon.interval) }:
\* the number of timers an invocation sets, whatever the try block did
Scheduled(outcome) == IF outcome \in {"idle", "sent", "threw"} THEN 1 ELSE 0

\* one invocation of beaconLoop; `fired` is 1 when a timer invoked it
beaconLoop(fired) ==
    /\ Len(beacon_runs) < MaxBeacon
    /\ \E outcome \in TryOutcomes :
          /\ beacon_reqs' = IF outcome = "sent" THEN beacon_reqs + 1 ELSE beacon_reqs
          /\ beacon_timers' = beacon_timers - fired + Scheduled(outcome)
          /\ beacon_runs' = Append(beacon_runs, outcome)
    /\ UNCHANGED <<beacon_active, beacon_div, beacon_off>>
    /\ UNCHANGED notBeacon

\* the page starts the loop by calling beaconLoop once
beacon_start ==
    /\ beacon_runs = <<>>
    /\ beaconLoop(0)

\* a timer set by beaconLoop expires
beacon_timer ==
    /\ beacon_timers > 0
    /\ beaconLoop(1)

\* what the success callback writes into #beacon
BeaconText(status) ==
    IF status THEN "Server is alive" ELSE "Server is not responding"

\* function (response) { ... } of the beacon request
beacon_response ==
    /\ beacon_reqs > 0
    /\ beacon_reqs' = beacon_reqs - 1
    /\ \E status \in BOOLEAN :
          beacon_div' = [html |-> BeaconText(status), error |-> FALSE]
    /\ UNCHANGED <<beacon_active, beacon_timers, beacon_runs, beacon_off>>
    /\ UNCHANGED notBeacon

\* .fail(function () { ... }) of the beacon request
beacon_fail ==
    /\ beacon_reqs > 0
    /\ beacon_reqs' = beacon_reqs - 1
    /\ beacon_div' = [html |-> "Server is not responding", error |-> TRUE]
    /\ UNCHANGED <<beacon_active, beacon_timers, beacon_runs, beacon_off>>
    /\ UNCHANGED notBeacon

beaconToggle ==
    /\ beacon_active' = ~beacon_active
    /\ beacon_div' = IF ~beacon_active'
                     THEN [html |-> "Beacon is suspended", error |-> FALSE]
                     ELSE beacon_div
    /\ beacon_off' = ~beacon_active'
    /\ UNCHANGED <<beacon_timers, beacon_reqs, beacon_runs>>
    /\ UNCHANGED notBeacon

NextBeacon ==
    \/ beacon_start
    \/ beacon_timer
    \/ beacon_response
    \/ beacon_fail
    \/ beaconToggle

\* settings.beacon.active is read from the saved settings: on or off
InitLog ==
    /\ msg_tbl = <<>> /\ now = 0 /\ nreq = 0 /\ pending = {} /\ done = <<>>
    /\ calls = <<>> /\ steps = <<0>> /\ last = "load"

InitBeaconAny ==
    /\ InitLog
    /\ InitAjax /\ InitRate /\ InitBl /\ InitCheck /\ InitFmt
    /\ beacon_active \in BOOLEAN
    /\ beacon_div = [html |-> "", error |-> FALSE]
    /\ beacon_timers = 0
    /\ beacon_reqs = 0
    /\ beacon_runs = <<>>
    /\ beacon_off = FALSE

SpecBeacon == InitBeaconAny /\ [][NextBeacon]_vars

\* ------------------------------------------------- rate_item, unrate_item
notRate == <<ajaxVars, beaconVars, blVars, checkVars, fmtVars>>

\* the ratings the buttons of an item pass to rate_item
Ratings == {0, 1, 2}

\* rate_item(item_id, rating), clicked on a rating button of the cell
rate_item(rating) ==
    /\ rate_n < MaxRate
    /\ item_rating = "buttons"
    /\ rate_n' = rate_n + 1
    /\ rate_reqs' = rate_reqs \cup {[fn |-> "rate", rating |-> rating, n |-> rate_n + 1]}
    /\ UNCHANGED <<item_row, item_rating>>
    /\ UNCHANGED logVars
    /\ UNCHANGED notRate

\* unrate_item(item_id), clicked on the rating icon of the cell
unrate_item ==
    /\ rate_n < MaxRate
    /\ item_rating # "buttons"
    /\ rate_n' = rate_n + 1
    /\ rate_reqs' = rate_reqs \cup {[fn |-> "unrate", rating |-> 0, n |-> rate_n + 1]}
    /\ UNCHANGED <<item_row, item_rating>>
    /\ UNCHANGED logVars
    /\ UNCHANGED notRate

\* (res) => { ... } of rate_item
rate_item_response(r, status) ==
    /\ r \in rate_reqs
    /\ r.fn = "rate"
    /\ rate_reqs' = rate_reqs \ {r}
    /\ IF status
       THEN /\ item_row' = IF r.rating = 0 THEN TRUE ELSE item_row
            /\ item_rating' = CASE r.rating = 0 -> "face-tired"
                                [] r.rating = 1 -> "face-glasses"
                                [] OTHER        -> item_rating   \* alert, return
            /\ UNCHANGED logVars
       ELSE /\ msg_add(SrvMsg, Undefined, 0)
            /\ UNCHANGED <<item_row, item_rating, now, nreq, pending, done>>
    /\ UNCHANGED rate_n
    /\ UNCHANGED notRate

\* (res) => { ... } of unrate_item
unrate_item_response(r, status) ==
    /\ r \in rate_reqs
    /\ r.fn = "unrate"
    /\ rate_reqs' = rate_reqs \ {r}
    /\ IF ~status
       THEN /\ msg_add(SrvMsg, "2", 0)
            /\ UNCHANGED <<item_row, item_rating, now, nreq, pending, done>>
       ELSE /\ item_rating' = "buttons"          \* res.content
            /\ item_row' = FALSE
            /\ UNCHANGED logVars
    /\ UNCHANGED rate_n
    /\ UNCHANGED notRate

\* a rating request fails at the transport level: neither handler has a
\* .fail callback
rate_request_fail(r) ==
    /\ r \in rate_reqs
    /\ rate_reqs' = rate_reqs \ {r}
    /\ UNCHANGED <<item_row, item_rating, rate_n>>
    /\ UNCHANGED logVars
    /\ UNCHANGED notRate

RateReqs ==
    [fn : {"rate", "unrate"}, rating : Ratings, n : 1..MaxRate]

NextRate ==
    \/ \E rating \in Ratings : rate_item(rating)
    \/ unrate_item
    \/ \E r \in RateReqs, status \in BOOLEAN : rate_item_response(r, status)
    \/ \E r \in RateReqs, status \in BOOLEAN : unrate_item_response(r, status)
    \/ \E r \in RateReqs : rate_request_fail(r)

\* the page shows the item unrated, rated boring or rated interesting
InitRateAny ==
    /\ InitLog
    /\ InitAjax /\ InitBeacon /\ InitBl /\ InitCheck /\ InitFmt
    /\ \E st \in {<<FALSE, "buttons">>, <<TRUE, "face-tired">>,
                   <<FALSE, "face-glasses">>} :
          item_row = st[1] /\ item_rating = st[2]
    /\ rate_reqs = {}
    /\ rate_n = 0

SpecRate == InitRateAny /\ [][NextRate]_vars

\* ------------------------------------------------- blacklist pattern edit
notBl == <<ajaxVars, beaconVars, rateVars, checkVars, fmtVars>>

\* bl_pat_restore[item_id] = pat
SetEntry(obj, id, pat) ==
    [k \in DOMAIN obj \cup {id} |-> IF k = id THEN pat ELSE obj[k]]

\* delete bl_pat_restore[item_id]
DeleteEntry(obj, id) == [k \in DOMAIN obj \ {id} |-> obj[k]]

\* the text a browser shows for an innerHTML string: "<" followed by a letter
\* opens a tag, which runs to the next ">" and is not shown
Letters == {"n", "p", "q", "x"}

RECURSIVE AfterTag(_)
AfterTag(h) ==
    IF h = <<>> THEN <<>>
    ELSE IF Head(h) = ">" THEN Tail(h) ELSE AfterTag(Tail(h))

RECURSIVE Shown(_)
Shown(h) ==
    IF h = <<>> THEN <<>>
    ELSE IF Head(h) = "<" /\ Len(h) > 1 /\ h[2] \in Letters
         THEN Shown(AfterTag(Tail(h)))
         ELSE <<Head(h)>> \o Shown(Tail(h))

\* cell.innerHTML = obj[id]: undefined is written as the text "undefined"
InnerHTML(obj, id) ==
    IF id \in DOMAIN obj THEN obj[id]
    ELSE <<"u", "n", "d", "e", "f", "i", "n", "e", "d">>

\* bl_pat_edit(item_id, pat): the Edit button of the row
bl_pat_edit(id, pat) ==
    /\ bl_n < MaxBl
    /\ bl_n' = bl_n + 1
    /\ bl_pat_restore' = SetEntry(bl_pat_restore, id, pat)
    /\ bl_pat_cell' = [bl_pat_cell EXCEPT ![id] = [mode |-> "edit", html |-> pat]]
    /\ bl_last' = BlOp("edit", id, pat, FALSE)
    /\ UNCHANGED bl_updates
    /\ UNCHANGED logVars
    /\ UNCHANGED notBl

\* bl_pat_update(item_id): the Save button of the edit form; new_pat is what
\* the input holds.  Without the form `input` is undefined and the handler
\* throws before it sends anything.
bl_pat_update(id) ==
    /\ bl_n < MaxBl
    /\ bl_n' = bl_n + 1
    /\ IF bl_pat_cell[id].mode = "edit"
       THEN \E new_pat \in Pats :
               bl_updates' = bl_updates \cup
                   {[id |-> id, new_pat |-> new_pat, n |-> bl_n + 1]}
       ELSE UNCHANGED bl_updates
    /\ bl_last' = BlOp("update", id, NoPat, FALSE)
    /\ UNCHANGED <<bl_pat_restore, bl_pat_cell>>
    /\ UNCHANGED logVars
    /\ UNCHANGED notBl

\* (res) => { ... } of bl_pat_update
bl_pat_update_response(r, status) ==
    /\ r \in bl_updates
    /\ bl_updates' = bl_updates \ {r}
    /\ IF status
       THEN /\ bl_pat_cell' = [bl_pat_cell EXCEPT
                                 ![r.id] = [mode |-> "text", html |-> r.new_pat]]
            /\ bl_pat_restore' = DeleteEntry(bl_pat_restore, r.id)
            /\ UNCHANGED logVars
       ELSE /\ msg_add(SrvMsg, "ERROR", 0)       \* then alert(msg) throws
            /\ UNCHANGED <<bl_pat_cell, bl_pat_restore, now, nreq, pending, done>>
    /\ bl_last' = BlOp("response", r.id, NoPat, FALSE)
    /\ UNCHANGED bl_n
    /\ UNCHANGED notBl

\* .fail(...) of bl_pat_update: throws on the undeclared status_text
bl_pat_update_fail(r) ==
    /\ r \in bl_updates
    /\ bl_updates' = bl_updates \ {r}
    /\ bl_last' = BlOp("response", r.id, NoPat, FALSE)
    /\ UNCHANGED <<bl_pat_cell, bl_pat_restore, bl_n>>
    /\ UNCHANGED logVars
    /\ UNCHANGED notBl

\* bl_pat_edit_cancel(item_id): the Cancel button of the edit form
bl_pat_edit_cancel(id) ==
    /\ bl_n < MaxBl
    /\ bl_n' = bl_n + 1
    /\ bl_pat_cell' = [bl_pat_cell EXCEPT
                         ![id] = [mode |-> "text",
                                  html |-> InnerHTML(bl_pat_restore, id)]]
    /\ bl_pat_restore' = DeleteEntry(bl_pat_restore, id)
    /\ bl_last' = IF bl_last.op = "edit" /\ bl_last.id = id
                  THEN BlOp("cancel", id, bl_last.pat, TRUE)
                  ELSE BlOp("cancel", id, NoPat, FALSE)
    /\ UNCHANGED bl_updates
    /\ UNCHANGED logVars
    /\ UNCHANGED notBl

BlUpdates == [id : PatIds, new_pat : Pats, n : 1..MaxBl]

NextBl ==
    \/ \E id \in PatIds, pat \in Pats : bl_pat_edit(id, pat)
    \/ \E id \in PatIds : bl_pat_update(id)
    \/ \E r \in BlUpdates, status \in BOOLEAN : bl_pat_update_response(r, status)
    \/ \E r \in BlUpdates : bl_pat_update_fail(r)
    \/ \E id \in PatIds : bl_pat_edit_cancel(id)

SpecBl == Init /\ [][NextBl]_vars

\* ------------------------------------------------ blacklist pattern check
notCheck == <<ajaxVars, beaconVars, rateVars, blVars, fmtVars>>

NoIcon    == ""
IconOk    == "<img src=\"/static/icon_ok.png\" />"
IconError == "<img src=\"/static/dialog-error.png\" />"

\* mutant: the flag is the status of the response
ValidRes_status(status) == status

\* bl_pat_valid_res = true, in either branch of the success callback
ValidRes(status) == TRUE

\* bl_pat_check() with `txt` in #bl_pat_input: the flag and the result
\* element next to the log
bl_pat_check_send(txt) ==
    /\ IF whitespace_pat(txt)
       THEN /\ msg_add(BlankPatMsg, "INFO", 0)        \* return
            /\ UNCHANGED <<bl_checks, bl_check_n>>
       ELSE /\ bl_check_n < MaxCheck
            /\ bl_check_n' = bl_check_n + 1            \* $.post(url, ...)
            /\ bl_checks' = bl_checks + 1
            /\ UNCHANGED <<msg_tbl, calls, steps, last>>
    /\ UNCHANGED <<bl_pat_valid_res, bl_pat_check_res>>
    /\ UNCHANGED <<now, nreq, pending, done>>
    /\ UNCHANGED notCheck

\* (res) => { ... } of bl_pat_check
bl_pat_check_response(status) ==
    /\ bl_checks > 0
    /\ bl_checks' = bl_checks - 1
    /\ bl_pat_valid_res' = ValidRes(status)
    /\ bl_pat_check_res' = IF status THEN IconOk ELSE IconError
    /\ UNCHANGED bl_check_n
    /\ UNCHANGED logVars
    /\ UNCHANGED notCheck

\* .fail(...) of bl_pat_check
bl_pat_check_fail ==
    /\ bl_checks > 0
    /\ bl_checks' = bl_checks - 1
    /\ msg_add(ErrMsg, "ERROR", 0)                     \* then alert(msg)
    /\ UNCHANGED <<bl_pat_valid_res, bl_pat_check_res, bl_check_n>>
    /\ UNCHANGED <<now, nreq, pending, done>>
    /\ UNCHANGED notCheck

bl_pat_valid_notify ==
    /\ IF bl_pat_valid_res
       THEN /\ bl_pat_check_res' = NoIcon
            /\ bl_pat_valid_res' = FALSE
       ELSE UNCHANGED <<bl_pat_valid_res, bl_pat_check_res>>
    /\ UNCHANGED <<bl_checks, bl_check_n>>
    /\ UNCHANGED logVars
    /\ UNCHANGED notCheck

bl_pat_input_clear ==
    /\ bl_pat_check_res' = NoIcon
    /\ bl_pat_valid_res' = FALSE
    /\ UNCHANGED <<bl_checks, bl_check_n>>
    /\ UNCHANGED logVars
    /\ UNCHANGED notCheck

NextCheck ==
    \/ \E txt \in Inputs : bl_pat_check_send(txt)
    \/ \E status \in BOOLEAN : bl_pat_check_response(status)
    \/ bl_pat_check_fail
    \/ bl_pat_valid_notify
    \/ bl_pat_input_clear

SpecCheck == Init /\ [][NextCheck]_vars

\* ------------------------------------------------------------ fmtDuration
notFmt == <<ajaxVars, beaconVars, rateVars, blVars, checkVars>>

\* mutant: the loop stops at one full hour
HoursCond_gt(seconds) == seconds > 3600

\* while (seconds > 3599)
HoursCond(seconds) == seconds > 3599

\* while (seconds > 59)
MinutesCond(seconds) == seconds > 59

\* the first loop, from the local variables t
RECURSIVE HoursLoop(_)
HoursLoop(t) ==
    IF HoursCond(t.seconds)
    THEN HoursLoop([t EXCEPT !.hours = @ + 1, !.seconds = @ - 3600])
    ELSE t

\* the second loop
RECURSIVE MinutesLoop(_)
MinutesLoop(t) ==
    IF MinutesCond(t.seconds)
    THEN MinutesLoop([t EXCEPT !.minutes = @ + 1, !.seconds = @ - 60])
    ELSE t

\* `${n}` of a number
Num(n) == ToString(n)

fmtDuration(seconds) ==
    LET t == MinutesLoop(HoursLoop([hours |-> 0, minutes |-> 0, seconds |-> seconds]))
    IN  IF t.hours > 0
        THEN Num(t.hours) \o "h" \o Num(t.minutes) \o "m" \o Num(t.seconds) \o "s"
        ELSE IF t.minutes > 0
             THEN Num(t.minutes) \o "m" \o Num(t.seconds) \o "s"
             ELSE Num(t.seconds) \o "s"

\* a caller formats the duration it holds
call_fmtDuration ==
    /\ fmt_result = ""
    /\ fmt_result' = fmtDuration(fmt_seconds)
    /\ UNCHANGED fmt_seconds
    /\ UNCHANGED logVars
    /\ UNCHANGED notFmt

InitFmtAny ==
    /\ InitLog
    /\ InitAjax /\ InitBeacon /\ InitRate /\ InitBl /\ InitCheck
    /\ fmt_seconds \in 0..MaxSeconds
    /\ fmt_result = ""

NextFmt == call_fmtDuration

SpecFmt == InitFmtAny /\ [][NextFmt]_vars

\* ================================================================ claims
\* the row a recorded call must have produced
LoggedRow(c) == <<c.at, IF c.level = Undefined THEN "1" ELSE c.level, c.msg, "">>

\* the step is a call of msg_add
IsMsgAddStep == Len(calls') = Len(calls) + 1

Min(a, b) == IF a <= b THEN a ELSE b

\* position of request id in the run order of the callbacks
Pos(seq, id) == CHOOSE k \in 1..Len(seq) : seq[k] = id

\* C1 - capacity invariant: starting from an empty table, after every msg_add
\* call (and every other step) the table holds at most max_msg_cnt = 5 rows.
C1_Capacity == Len(msg_tbl) <= max_msg_cnt

C1_Witness ==
    /\ last = "msg_add"
    /\ Len(calls) > max_msg_cnt
    /\ steps[1] = max_msg_cnt
    /\ Len(msg_tbl) = max_msg_cnt

\* C2 - FIFO eviction: msg_add on a table of exactly 5 rows removes the first
\* row and no other, keeps the other four in their order and puts the new
\* row last.
C2_FifoEviction ==
    [][(IsMsgAddStep /\ Len(msg_tbl) = max_msg_cnt) =>
          /\ Len(msg_tbl') = max_msg_cnt
          /\ SubSeq(msg_tbl', 1, max_msg_cnt - 1) = Tail(msg_tbl)
          /\ msg_tbl'[max_msg_cnt] = LoggedRow(calls'[Len(calls')])]_vars

C2_Witness ==
    /\ last = "msg_add"
    /\ steps = <<max_msg_cnt, max_msg_cnt - 1, max_msg_cnt>>
    /\ msg_tbl[1] = LoggedRow(calls[2])
    /\ LoggedRow(calls[1]) # LoggedRow(calls[2])
    /\ msg_tbl[max_msg_cnt] = LoggedRow(calls[max_msg_cnt + 1])

\* C3 - order preservation: at most 5 msg_add calls on an empty table leave
\* exactly the rows of those calls, in call order, none dropped, duplicated
\* or moved.
C3_OrderPreserved ==
    Len(calls) <= max_msg_cnt =>
        msg_tbl = [k \in 1..Len(calls) |-> LoggedRow(calls[k])]

C3_Witness ==
    /\ Len(calls) = 3
    /\ Len(msg_tbl) = 3
    /\ msg_tbl[1] # msg_tbl[2]
    /\ msg_tbl[2] # msg_tbl[3]
    /\ msg_tbl[1] # msg_tbl[3]

\* C4 - clear empties unconditionally: after msg_clear the table has no rows,
\* whatever it held before (0 to 5 rows); an empty table stays empty.
C4_ClearEmpties == last = "msg_clear" => (Len(msg_tbl) = 0 /\ steps[2] = 0)

C4_Witness ==
    /\ last = "msg_clear"
    /\ steps[1] = max_msg_cnt
    /\ msg_tbl = <<>>

\* C5 as stated - every msg_add on a table of 5 or more rows ends with
\* exactly 5 rows, and at no step between entry and return does the table
\* hold 6 rows.
C5_NeverSixRows ==
    (last = "msg_add" /\ steps[1] >= max_msg_cnt) =>
        /\ Len(msg_tbl) = max_msg_cnt
        /\ \A k \in 2..(Len(steps) - 1) : steps[k] # max_msg_cnt + 1

\* C5 amended - every msg_add on a table of 5 or more rows ends with exactly
\* 5 rows; the row count only falls until the new row is inserted, so a table
\* of 5 or 6 rows at entry holds 6 rows at no step after entry.
C5_Amended ==
    (last = "msg_add" /\ steps[1] >= max_msg_cnt) =>
        /\ Len(msg_tbl) = max_msg_cnt
        /\ steps[Len(steps)] = max_msg_cnt
        /\ \A k \in 2..(Len(steps) - 1) : steps[k] = steps[k - 1] - 1
        /\ steps[1] <= max_msg_cnt + 1 =>
              \A k \in 2..Len(steps) : steps[k] <= max_msg_cnt

C5_Witness ==
    /\ last = "msg_add"
    /\ steps[1] = max_msg_cnt + 1
    /\ Len(calls) = 1
    /\ Len(msg_tbl) = max_msg_cnt

\* C6 - immutability: in every step the rows that stay in the table keep
\* their timestamp, level and message; rows only leave from the front
\* (eviction) or all at once (clear), and at most one row is added at the end.
C6_Immutable ==
    [][\E d \in 0..Len(msg_tbl) :
          /\ Len(msg_tbl') \in {Len(msg_tbl) - d, Len(msg_tbl) - d + 1}
          /\ \A k \in 1..(Len(msg_tbl) - d) : msg_tbl'[k] = msg_tbl[k + d]]_vars

C6_Witness ==
    /\ last = "msg_add"
    /\ Len(calls) = max_msg_cnt + 1
    /\ calls[2].at < calls[Len(calls)].at
    /\ msg_tbl[1] = LoggedRow(calls[2])
    /\ msg_tbl[1][1] < now

\* C7 - eviction ignores severity: after more than 5 calls the table holds
\* the rows of the last 5 calls in call order, whatever their levels.
C7_EvictByPosition ==
    Len(calls) > max_msg_cnt =>
        msg_tbl = [k \in 1..max_msg_cnt |->
                      LoggedRow(calls[Len(calls) - max_msg_cnt + k])]

C7_Witness ==
    /\ Len(calls) = max_msg_cnt + 1
    /\ calls[1].level = "ERROR"
    /\ \A k \in 1..max_msg_cnt : calls[k].level # calls[k + 1].level
    /\ \A k \in 1..max_msg_cnt : msg_tbl[k] = LoggedRow(calls[k + 1])

\* C8 - append effect: a call msg_add(msg, level) adds exactly one row, as
\* the last row, holding the time of the call, the level (1 when left out)
\* and the message.
C8_AppendEffect ==
    [][IsMsgAddStep =>
          LET c    == calls'[Len(calls')]
              kept == Min(Len(msg_tbl), max_msg_cnt - 1)
          IN  /\ Len(msg_tbl') = kept + 1
              /\ msg_tbl'[kept + 1] =
                     <<now, IF c.level = Undefined THEN "1" ELSE c.level, c.msg, "">>
              /\ \A k \in 1..kept :
                     msg_tbl'[k] = msg_tbl[Len(msg_tbl) - kept + k]]_vars

C8_Witness ==
    /\ last = "msg_add"
    /\ calls[Len(calls)].level = Undefined
    /\ msg_tbl[Len(msg_tbl)] = <<now, "1", calls[Len(calls)].msg, "">>
    /\ now > 0
    /\ Len(msg_tbl) > 1

\* C9 - arrival-order logging: the rows stand in the order their msg_add
\* calls ran; rows written by request callbacks stand in the order the
\* callbacks ran, whatever the order the requests were issued in.
C9_ArrivalOrder ==
    LET n == Len(calls)
        m == Len(msg_tbl)
    IN  /\ m = Min(n, max_msg_cnt)
        /\ \A k \in 1..m : msg_tbl[k] = LoggedRow(calls[n - m + k])
        /\ \A p, q \in 1..n :
              (p < q /\ calls[p].by # 0 /\ calls[q].by # 0) =>
                  Pos(done, calls[p].by) < Pos(done, calls[q].by)

C9_Witness ==
    /\ done = <<2, 1>>
    /\ \E p, q \in 1..Len(msg_tbl) :
          /\ p < q
          /\ Len(calls) = Len(msg_tbl)
          /\ calls[p].by = 2
          /\ calls[q].by = 1
          /\ msg_tbl[p] # msg_tbl[q]

\* C10 - atomic append under interleaving: every callback's msg_add acts on
\* the table the previous handler left: afterwards the table holds at most 5
\* rows, the newest rows of before in their order plus the callback's row.
C10_AtomicAppend ==
    [][Len(done') = Len(done) + 1 =>
          LET kept == Min(Len(msg_tbl), max_msg_cnt - 1)
          IN  /\ Len(msg_tbl') <= max_msg_cnt
              /\ Len(msg_tbl') = kept + 1
              /\ \A k \in 1..kept :
                     msg_tbl'[k] = msg_tbl[Len(msg_tbl) - kept + k]
              /\ msg_tbl'[kept + 1] = LoggedRow(calls'[Len(calls')])
              /\ calls'[Len(calls')].by = done'[Len(done')]]_vars

C10_Witness ==
    /\ Len(done) = 2
    /\ done[1] > done[2]
    /\ last = "msg_add"
    /\ Len(calls) = max_msg_cnt + 1
    /\ calls[Len(calls)].by = done[2]
    /\ calls[Len(calls) - 1].by = done[1]
    /\ steps[1] = max_msg_cnt
    /\ msg_tbl[max_msg_cnt - 1] = LoggedRow(calls[max_msg_cnt])

\* the handler that ran last was the callback of a failed request
Failed == fin.kind \in FailKinds

\* C11 - failures reach the log: whenever a request of any handler fails
\* (transport failure or false status flag) the handler calls msg_add.
C11_FailuresLogged == Failed => fin.logged

\* C12 - failures are always visible: every failed request ends in an alert
\* or a new row of the log.
C12_FailuresVisible == Failed => (fin.logged \/ fin.alerted)

\* C13 - validate, notify and stop: a handler whose input is only whitespace
\* notifies the user and sends no request.
C13_ValidateAndStop ==
    fin.kind = "invalid" => ((fin.logged \/ fin.alerted) /\ ~fin.sent)

C15_OneTimer == beacon_runs # <<>> => beacon_timers = 1

C15_Witness ==
    /\ Len(beacon_runs) = 3
    /\ \E i, j, k \in 1..3 :
          /\ beacon_runs[i] = "idle"
          /\ beacon_runs[j] = "threw"
          /\ beacon_runs[k] = "sent"
    /\ beacon_timers = 1

\* C16 - after beaconToggle switched the beacon off, #beacon shows 'Beacon is
\* suspended' until the beacon is switched on again.
C16_StaysSuspended == beacon_off => beacon_div.html = "Beacon is suspended"

\* C17 - the row of the item is marked 'boring' exactly when its rating cell
\* shows the face-tired icon, and the response to a rating other than 0 or 1
\* changes neither the cell nor the row.
C17_BoringIffTired ==
    /\ [](item_row <=> (item_rating = "face-tired"))
    /\ [][(\E r \in rate_reqs \ rate_reqs' :
              r.fn = "rate" /\ r.rating \notin {0, 1})
          => UNCHANGED <<item_row, item_rating>>]_vars

\* C18 - blacklist edit bookkeeping: bl_pat_restore holds an entry for a
\* pattern id exactly while the cell of that pattern is in edit mode; and
\* right after bl_pat_edit(id, p) followed by bl_pat_edit_cancel(id) the cell
\* shows p again and bl_pat_restore holds no entry for id.
C18_EditCancelRestores ==
    /\ \A id \in PatIds :
          (id \in DOMAIN bl_pat_restore) <=> (bl_pat_cell[id].mode = "edit")
    /\ (bl_last.op = "cancel" /\ bl_last.undo) =>
          /\ bl_pat_cell[bl_last.id].mode = "text"
          /\ Shown(bl_pat_cell[bl_last.id].html) = bl_last.pat
          /\ bl_last.id \notin DOMAIN bl_pat_restore

\* C19 - in every reachable state the flag bl_pat_valid_res is true if and
\* only if a check-result icon is shown in #bl_pat_check_res.
C19_FlagIffIcon ==
    bl_pat_valid_res <=> bl_pat_check_res \in {IconOk, IconError}

C19_Witness ==
    /\ bl_pat_valid_res
    /\ bl_pat_check_res = IconError
    /\ bl_checks > 0
    /\ bl_check_n = MaxCheck

\* C20 - fmtDuration returns, for a number s >= 0 of seconds, h = s div 3600,
\* m = (s mod 3600) div 60 and sec = s mod 60, rendered as 'HhMmSs' when
\* h > 0, as 'MmSs' when h = 0 and m > 0, and as 'Ss' otherwise.
C20_DurationParts ==
    fmt_result # "" =>
        LET h   == fmt_seconds \div 3600
            m   == (fmt_seconds % 3600) \div 60
            sec == fmt_seconds % 60
        IN  /\ sec < 60 /\ m < 60
            /\ fmt_result =
                 CASE h > 0          -> ToString(h) \o "h" \o ToString(m) \o "m"
                                          \o ToString(sec) \o "s"
                   [] h = 0 /\ m > 0 -> ToString(m) \o "m" \o ToString(sec) \o "s"
                   [] OTHER          -> ToString(sec) \o "s"

C20_Witness == fmt_seconds = 3600 /\ fmt_result = "1h0m0s"

====
